---- MODULE Spec2Model ----
(***************************************************************************)
(* Model of oneloginapi/__init__.py: the OneLogin client (listing cache,   *)
(* _list / _filter / _find / _reload) and APIObject construction.           *)
(*                                                                         *)
(* Text is a tuple of one-character strings; <<>> is lxml's "no text"      *)
(* (element.text is None).  An element is a record [tag, children] and a   *)
(* leaf field is a record [tag, text].  Python's None is the record None.  *)
(*                                                                         *)
(* Spec is one client called from one thread: cache is its _cache and       *)
(* lastCall the record of its latest call.  SpecThreads is the same client  *)
(* called from two threads, statement by statement: thread holds each       *)
(* thread's frame.  SpecClients is two clients of the same class: clients   *)
(* holds the class attribute _cache and each instance's own.                *)
(***************************************************************************)
EXTENDS Naturals, Sequences, FiniteSets, TLC

VARIABLES cache, lastCall, thread, clients

vars == <<cache, lastCall, thread, clients>>

\* ---------------------------------------------------------------- bounds
\* Most records a listing document holds.
MaxRecs == 2

\* ---------------------------------------------------------------- values
None == [type |-> "NoneType"]

NoException == "none"

Leaf(tag, text) == [tag |-> tag, text |-> text]

Element(tag, children) == [tag |-> tag, children |-> children]

\* The sample records a listing document is made of: two users with the same
\* e-mail, a user without an id field whose e-mail has the others' as a
\* prefix, and a record of another resource type with the users' e-mail and
\* the second user's id.
Records ==
    { Element("user", <<Leaf("id", <<"1">>), Leaf("email", <<"a">>)>>),
      Element("user", <<Leaf("id", <<"2">>), Leaf("email", <<"a">>)>>),
      Element("user", <<Leaf("email", <<"a", "b">>)>>),
      Element("role", <<Leaf("id", <<"2">>), Leaf("email", <<"a">>)>>) }

\* The listing documents the server can answer with: a root holding up to
\* MaxRecs of the sample records, in any order, repeats included.
Docs ==
    {Element("users", rs) : rs \in UNION {[1..n -> Records] : n \in 0..MaxRecs}}

\* The body of an error page that happens to be well-formed XML.
ErrorDoc == Element("error", <<>>)

Xml(root) == [wellformed |-> TRUE, root |-> root]

Garbage == [wellformed |-> FALSE]

HttpResponse(status, content) ==
    [kind |-> "Response", status_code |-> status, content |-> content]

ConnectionFailure == [kind |-> "ConnectionError"]

\* What self._conn.get(url) can produce: a transport failure (requests
\* raises), a 200 answer, or a non-success answer with an error body.
Responses ==
    {ConnectionFailure}
        \cup {HttpResponse(200, Xml(d)) : d \in Docs}
        \cup {HttpResponse(200, Garbage)}
        \cup {HttpResponse(500, Garbage), HttpResponse(500, Xml(ErrorDoc))}

\* The (api_type, cls) pair the client of the users listing is called with.
Resources == {<<"user", "User">>}

\* The subclasses of APIObject.
Classes == {"User", "Role"}

Fields == {"id", "email"}

Quote == "\""

Searches == {<<"a">>, <<"a", "b">>, <<"a", Quote>>}

\* ------------------------------------------------------------- lxml model
\* lxml.objectify.fromstring(content)
fromstring(content) ==
    IF content.wellformed
        THEN [raised |-> NoException, value |-> content.root]
        ELSE [raised |-> "XMLSyntaxError", value |-> None]

ChildrenNamed(el, tag) == SelectSeq(el.children, LAMBDA c : c.tag = tag)

\* el.find(key): the first child with that tag, or None.
ElementFind(el, key) ==
    LET named == ChildrenNamed(el, key)
    IN  IF named = <<>> THEN None ELSE Head(named)

\* A getattr that stands for the first child only.
ObjectifyGetattr_first_only(el, name) ==
    IF ChildrenNamed(el, name) = <<>>
        THEN [raised |-> "AttributeError", value |-> <<>>]
        ELSE [raised |-> NoException, value |-> <<Head(ChildrenNamed(el, name))>>]

\* getattr(el, name) on an objectify element: the first child with that tag,
\* standing for all its same-tag siblings when iterated; AttributeError when
\* there is no such child.
ObjectifyGetattr(el, name) ==
    IF ChildrenNamed(el, name) = <<>>
        THEN [raised |-> "AttributeError", value |-> <<>>]
        ELSE [raised |-> NoException, value |-> ChildrenNamed(el, name)]

\* The text nodes of an element: a leaf with text has one, anything else none.
TextNodes(el) ==
    IF "text" \in DOMAIN el /\ el.text # <<>> THEN {el.text} ELSE {}

ChildElements(el) == IF "children" \in DOMAIN el THEN el.children ELSE <<>>

\* The string literal "<search>" as libxml2 reads it inside the formatted
\* expression: it ends at the first double quote, so a search term holding a
\* double quote leaves text after the literal that is no XPath.
LiteralIsClosed(search) == \A i \in 1..Len(search) : search[i] # Quote

\* root.xpath('//%s/%s[text()="%s"]/..' % (api_type, field, search)): every
\* element named api_type, at any depth, with a child named field one of whose
\* text nodes equals the literal; in document order, each element once.
xpath(root, api_type, field, search) ==
    IF ~LiteralIsClosed(search)
        THEN [raised |-> "XPathEvalError", value |-> <<>>]
        ELSE [raised |-> NoException,
              value |-> SelectSeq(<<root>> \o ChildElements(root),
                  LAMBDA el : /\ el.tag = api_type
                              /\ \E i \in 1..Len(ChildElements(el)) :
                                    /\ ChildElements(el)[i].tag = field
                                    /\ search \in TextNodes(ChildElements(el)[i]))]

\* ------------------------------------------------------------- APIObject
\* A constructor that keeps going without an id, leaving the identity absent.
APIObject_absent_identity(cls, el) ==
    [raised |-> NoException,
     value |-> [cls |-> cls,
                _id |-> IF ElementFind(el, "id") = None
                            THEN <<>> ELSE ElementFind(el, "id").text,
                details |-> el]]

\* APIObject.__init__(el): self._find("id").text, where _find is el.find; a
\* missing id child makes find return None and None.text raise.
APIObject(cls, el) ==
    IF ElementFind(el, "id") = None
        THEN [raised |-> "AttributeError", value |-> None]
        ELSE [raised |-> NoException,
              value |-> [cls |-> cls, _id |-> ElementFind(el, "id").text,
                         details |-> el]]

\* What Python sees of an element's .text: None when the element has no text,
\* the string otherwise.
PyText(text) == IF text = <<>> THEN None ELSE [type |-> "str", text |-> text]

\* A field access that leaves a missing field to Python's default, which
\* raises.
__getattr___default(self, key) ==
    IF ElementFind(self.details, key) = None
        THEN [raised |-> "AttributeError", value |-> None]
        ELSE [raised |-> NoException,
              value |-> PyText(ElementFind(self.details, key).text)]

\* APIObject.__getattr__(key): f = self._find(key), where _find is
\* self.__details.find; None when there is no such child, f.text otherwise.
__getattr__(self, key) ==
    IF ElementFind(self.details, key) = None
        THEN [raised |-> NoException, value |-> None]
        ELSE [raised |-> NoException,
              value |-> PyText(ElementFind(self.details, key).text)]

ListingRequest == [endpoint |-> "listing", id |-> <<>>]

DetailRequest(id) == [endpoint |-> "detail", id |-> id]

\* cls.load(id, api_key): one GET to the per-id detail endpoint, whose answer
\* is the record of that id, wrapped by the class's constructor.
load(cls, id, fails) ==
    IF fails
        THEN [raised |-> "ConnectionError", value |-> None]
        ELSE APIObject(cls, Element("detail", <<Leaf("id", id)>>))

\* A comprehension that wraps the listing's own records and fetches nothing.
LoadEach_no_fetch(cls, els, failAt, k) ==
    IF \E i \in 1..Len(els) : ElementFind(els[i], "id") = None
        THEN [raised |-> "AttributeError", value |-> <<>>, requests |-> <<>>]
        ELSE [raised |-> NoException,
              value |-> [i \in 1..Len(els) |-> APIObject(cls, els[i]).value],
              requests |-> <<>>]

\* [cls.load(o.id, self._api_key) for o in els], left to right, stopped by the
\* first exception: o.id raises AttributeError when the record has no id
\* child; the failAt-th detail request fails (0: none does).
RECURSIVE LoadEach(_, _, _, _)
LoadEach(cls, els, failAt, k) ==
    IF els = <<>>
        THEN [raised |-> NoException, value |-> <<>>, requests |-> <<>>]
    ELSE IF ElementFind(Head(els), "id") = None
        THEN [raised |-> "AttributeError", value |-> <<>>, requests |-> <<>>]
    ELSE LET id   == ElementFind(Head(els), "id").text
             one  == load(cls, id, failAt = k + 1)
             rest == LoadEach(cls, Tail(els), failAt, k + 1)
         IN  IF one.raised # NoException
                 THEN [raised |-> one.raised, value |-> <<>>,
                       requests |-> <<DetailRequest(id)>>]
                 ELSE [raised |-> rest.raised,
                       value |-> IF rest.raised = NoException
                                     THEN <<one.value>> \o rest.value
                                     ELSE <<>>,
                       requests |-> <<DetailRequest(id)>> \o rest.requests]

\* --------------------------------------------------------------- OneLogin
\* A reload that drops the cache before it parses.
_reload_clears(c, response) ==
    IF response.kind = "ConnectionError"
        THEN [raised |-> "ConnectionError", cache |-> c,
              requests |-> <<ListingRequest>>]
    ELSE IF fromstring(response.content).raised # NoException
        THEN [raised |-> fromstring(response.content).raised, cache |-> None,
              requests |-> <<ListingRequest>>]
    ELSE [raised |-> NoException, cache |-> fromstring(response.content).value,
          requests |-> <<ListingRequest>>]

\* A reload that adds the new document's records to the cached ones.
_reload_merges(c, response) ==
    IF response.kind = "ConnectionError"
        THEN [raised |-> "ConnectionError", cache |-> c,
              requests |-> <<ListingRequest>>]
    ELSE IF fromstring(response.content).raised # NoException
        THEN [raised |-> fromstring(response.content).raised, cache |-> c,
              requests |-> <<ListingRequest>>]
    ELSE [raised |-> NoException,
          cache |-> IF c = None THEN fromstring(response.content).value
                    ELSE Element(fromstring(response.content).value.tag,
                                 c.children
                                   \o fromstring(response.content).value.children),
          requests |-> <<ListingRequest>>]

\* A reload that drops the cache when the GET fails.
_reload_drops_on_failure(c, response) ==
    IF response.kind = "ConnectionError"
        THEN [raised |-> "ConnectionError", cache |-> None,
              requests |-> <<ListingRequest>>]
    ELSE IF fromstring(response.content).raised # NoException
        THEN [raised |-> fromstring(response.content).raised, cache |-> c,
              requests |-> <<ListingRequest>>]
    ELSE [raised |-> NoException, cache |-> fromstring(response.content).value,
          requests |-> <<ListingRequest>>]

\* OneLogin._reload: GET the listing, parse it, assign the cache.
_reload(c, response) ==
    IF response.kind = "ConnectionError"
        THEN [raised |-> "ConnectionError", cache |-> c,
              requests |-> <<ListingRequest>>]
    ELSE IF fromstring(response.content).raised # NoException
        THEN [raised |-> fromstring(response.content).raised, cache |-> c,
              requests |-> <<ListingRequest>>]
    ELSE [raised |-> NoException, cache |-> fromstring(response.content).value,
          requests |-> <<ListingRequest>>]

NoReload(c) == [raised |-> NoException, cache |-> c, requests |-> <<>>]

Raise(exc, c, requests) ==
    [raised |-> exc, value |-> None, cache |-> c, requests |-> requests]

Return(value, c, requests) ==
    [raised |-> NoException, value |-> value, cache |-> c, requests |-> requests]

\* A list that swallows a failed reload and reads the document it still has.
_list_read_past_failure(r, api_type, cls, failAt) ==
    IF r.raised # NoException /\ r.cache = None
        THEN Raise(r.raised, r.cache, r.requests)
    ELSE LET objlist == ObjectifyGetattr(r.cache, api_type)
             objs    == LoadEach(cls, objlist.value, failAt, 0)
         IN  IF objlist.raised # NoException
                 THEN Raise(objlist.raised, r.cache, r.requests)
             ELSE IF objs.raised # NoException
                 THEN Raise(objs.raised, r.cache, r.requests \o objs.requests)
             ELSE Return(objs.value, r.cache, r.requests \o objs.requests)

\* OneLogin._list after its reload r: getattr(self._cache, api_type) and the
\* comprehension over it.
_list_read(r, api_type, cls, failAt) ==
    IF r.raised # NoException THEN Raise(r.raised, r.cache, r.requests)
    ELSE LET objlist == ObjectifyGetattr(r.cache, api_type)
             objs    == LoadEach(cls, objlist.value, failAt, 0)
         IN  IF objlist.raised # NoException
                 THEN Raise(objlist.raised, r.cache, r.requests)
             ELSE IF objs.raised # NoException
                 THEN Raise(objs.raised, r.cache, r.requests \o objs.requests)
             ELSE Return(objs.value, r.cache, r.requests \o objs.requests)

\* A list that reloads on every call.
_list_always_reloads(c, api_type, cls, refresh, response, failAt) ==
    _list_read(_reload(c, response), api_type, cls, failAt)

\* A list that reloads only when the cache is absent, as _filter does.
_list_ignores_refresh(c, api_type, cls, refresh, response, failAt) ==
    _list_read(IF c = None THEN _reload(c, response) ELSE NoReload(c),
               api_type, cls, failAt)

\* OneLogin._list
_list(c, api_type, cls, refresh, response, failAt) ==
    _list_read(IF refresh \/ c = None THEN _reload(c, response) ELSE NoReload(c),
               api_type, cls, failAt)

\* OneLogin._filter after its reload r: the XPath query and the comprehension
\* over its results.
_filter_read(r, api_type, cls, search, field, failAt) ==
    IF r.raised # NoException THEN Raise(r.raised, r.cache, r.requests)
    ELSE LET results == xpath(r.cache, api_type, field, search)
             xp      == LoadEach(cls, results.value, failAt, 0)
         IN  IF results.raised # NoException
                 THEN Raise(results.raised, r.cache, r.requests)
             ELSE IF xp.raised # NoException
                 THEN Raise(xp.raised, r.cache, r.requests \o xp.requests)
             ELSE Return(xp.value, r.cache, r.requests \o xp.requests)

\* A filter that reloads on every call.
_filter_refreshes(c, api_type, cls, search, field, response, failAt) ==
    _filter_read(_reload(c, response), api_type, cls, search, field, failAt)

\* OneLogin._filter
_filter(c, api_type, cls, search, field, response, failAt) ==
    _filter_read(IF c = None THEN _reload(c, response) ELSE NoReload(c),
                 api_type, cls, search, field, failAt)

\* A find that fetches the first match only.
_find_loads_first(c, api_type, cls, search, field, response, failAt) ==
    LET r == IF c = None THEN _reload(c, response) ELSE NoReload(c)
    IN  IF r.raised # NoException THEN Raise(r.raised, r.cache, r.requests)
        ELSE LET results == xpath(r.cache, api_type, field, search)
                 first   == IF results.value = <<>> THEN <<>>
                            ELSE <<Head(results.value)>>
                 xp      == LoadEach(cls, first, failAt, 0)
             IN  IF results.raised # NoException
                     THEN Raise(results.raised, r.cache, r.requests)
                 ELSE IF xp.raised # NoException
                     THEN Raise(xp.raised, r.cache, r.requests \o xp.requests)
                 ELSE IF first = <<>>
                     THEN Return(None, r.cache, r.requests)
                 ELSE Return(xp.value[1], r.cache, r.requests \o xp.requests)

\* OneLogin._find
_find(c, api_type, cls, search, field, response, failAt) ==
    LET apobj == _filter(c, api_type, cls, search, field, response, failAt)
    IN  IF apobj.raised # NoException THEN apobj
        ELSE IF Len(apobj.value) > 0
            THEN Return(apobj.value[1], apobj.cache, apobj.requests)
        ELSE Return(None, apobj.cache, apobj.requests)

\* ------------------------------------------------------------ environment
Range(s) == {s[i] : i \in DOMAIN s}

\* Whether a call issues a GET to the listing endpoint, seen on its outcome.
Asks(outcome) == ListingRequest \in Range(outcome.requests)

NoAnswer == [kind |-> "NotAsked"]

\* What the listing endpoint answers to a call: any response when the call
\* asks, nothing when it does not.
Answers(asked) == IF asked THEN Responses ELSE {NoAnswer}

\* The ids of the records of a cached document.
IdsOf(c) ==
    IF c = None THEN {}
    ELSE {ElementFind(c.children[i], "id").text :
            i \in {j \in 1..Len(c.children) :
                        ElementFind(c.children[j], "id") # None}}

\* The listing endpoint delivered a well-formed document to the call.
Delivered(asked, response) ==
    /\ asked
    /\ response.kind = "Response"
    /\ response.content.wellformed

\* One call of the client: the cache, and the record of the call: its
\* arguments, the listing answer it consumed, what it raised or returned, the
\* requests it issued, in order, whether the cache was populated when it
\* began (cached) and is left as it was (kept), and the ids of the records
\* that the document it was delivered no longer holds (replaced).
Call(op, args, response, outcome) ==
    /\ UNCHANGED <<thread, clients>>
    /\ cache' = outcome.cache
    /\ lastCall' = [op |-> op, args |-> args, response |-> response,
                    raised |-> outcome.raised, value |-> outcome.value,
                    requests |-> outcome.requests,
                    cached |-> cache # None,
                    kept |-> outcome.cache = cache,
                    replaced |-> IF Delivered(Asks(outcome), response)
                                     THEN IdsOf(cache)
                                            \ IdsOf(response.content.root)
                                     ELSE {}]

ListArgs(res, refresh) ==
    [api_type |-> res[1], cls |-> res[2], refresh |-> refresh,
     search |-> <<>>, field |-> ""]

SearchArgs(res, search, field) ==
    [api_type |-> res[1], cls |-> res[2], refresh |-> FALSE,
     search |-> search, field |-> field]

NoArgs == [api_type |-> "", cls |-> "", refresh |-> FALSE,
           search |-> <<>>, field |-> ""]

\* How many detail requests a call issues when none of them fails: the
\* environment lets at most one of these fail (failAt, 0 for none).
Details(outcome) ==
    Cardinality({i \in DOMAIN outcome.requests :
                    outcome.requests[i].endpoint = "detail"})

List ==
    \E res \in Resources, refresh \in BOOLEAN :
      \E response \in Answers(Asks(_list(cache, res[1], res[2], refresh,
                                         ConnectionFailure, 0))) :
        \E failAt \in 0..Details(_list(cache, res[1], res[2], refresh,
                                       response, 0)) :
          LET outcome == _list(cache, res[1], res[2], refresh, response, failAt)
          IN  Call("list", ListArgs(res, refresh), response, outcome)

Filter ==
    \E res \in Resources, search \in Searches, field \in Fields :
      \E response \in Answers(Asks(_filter(cache, res[1], res[2], search, field,
                                           ConnectionFailure, 0))) :
        \E failAt \in 0..Details(_filter(cache, res[1], res[2], search, field,
                                         response, 0)) :
          LET outcome == _filter(cache, res[1], res[2], search, field,
                                 response, failAt)
          IN  Call("filter", SearchArgs(res, search, field), response, outcome)

Find ==
    \E res \in Resources, search \in Searches, field \in Fields :
      \E response \in Answers(Asks(_find(cache, res[1], res[2], search, field,
                                         ConnectionFailure, 0))) :
        \E failAt \in 0..Details(_find(cache, res[1], res[2], search, field,
                                       response, 0)) :
          LET outcome == _find(cache, res[1], res[2], search, field,
                               response, failAt)
          IN  Call("find", SearchArgs(res, search, field), response, outcome)

Reload ==
    \E response \in Responses :
        LET r == _reload(cache, response)
        IN  Call("reload", NoArgs, response,
                 [raised |-> r.raised, value |-> None, cache |-> r.cache,
                  requests |-> r.requests])

\* The records an object is constructed from: the sample records and a user
\* whose id field is there and empty.
Elements ==
    Records \cup {Element("user", <<Leaf("id", <<>>), Leaf("email", <<"a">>)>>)}

\* cls(el): constructing an object of a resource class from a record.
Construct ==
    \E cls \in Classes, el \in Elements :
        Call("construct",
             [api_type |-> "", cls |-> cls, refresh |-> FALSE,
              search |-> <<>>, field |-> "", el |-> el],
             NoAnswer,
             [raised |-> APIObject(cls, el).raised,
              value |-> APIObject(cls, el).value,
              cache |-> cache, requests |-> <<>>])

\* The field names asked of an object: one every sample record has, one only
\* some have, one none has.  None of them is an attribute the object defines
\* itself, so Python hands each to __getattr__.
Keys == {"id", "email", "phone"}

\* obj.<key> on the object the latest call constructed.
GetAttr ==
    /\ lastCall.op = "construct"
    /\ lastCall.raised = NoException
    /\ \E key \in Keys :
        Call("getattr",
             [api_type |-> "", cls |-> lastCall.args.cls, refresh |-> FALSE,
              search |-> <<>>, field |-> key, el |-> lastCall.args.el],
             NoAnswer,
             [raised |-> __getattr__(lastCall.value, key).raised,
              value |-> __getattr__(lastCall.value, key).value,
              cache |-> cache, requests |-> <<>>])

\* ---------------------------------------------------------------- threads
Threads == {"t1", "t2"}

\* The frame of a thread that is not inside a call.
Idle == [pc |-> "idle", op |-> "", args |-> NoArgs,
         objlist |-> <<>>, value |-> <<>>, src |-> None]

\* ---------------------------------------------------------------- clients
Clients == {"c1", "c2"}

\* An instance __dict__ without a _cache entry.
Unset == [type |-> "unset"]

Init ==
    /\ cache = None
    /\ lastCall = [op |-> "init", args |-> NoArgs, response |-> NoAnswer,
                   raised |-> NoException, value |-> None, requests |-> <<>>,
                   cached |-> FALSE, kept |-> TRUE, replaced |-> {}]
    /\ thread = [t \in Threads |-> Idle]
    /\ clients = [class |-> None, self |-> [c \in Clients |-> Unset]]

Next ==
    \/ List
    \/ Filter
    \/ Find
    \/ Reload
    \/ Construct
    \/ GetAttr

Spec == Init /\ [][Next]_vars

\* ------------------------------------------- one client, several threads
\* The versions of the users listing the server publishes while the threads
\* run: up to MaxRecs users that have ids, in any order, repeats included.
Versions ==
    {d \in Docs : \A i \in 1..Len(d.children) :
                        /\ d.children[i].tag = "user"
                        /\ ElementFind(d.children[i], "id") # None}

\* What a GET of the listing produces there: a transport failure, bytes that
\* do not parse, or one of the versions.
Deliveries ==
    {ConnectionFailure, HttpResponse(200, Garbage)}
        \cup {HttpResponse(200, Xml(d)) : d \in Versions}

\* The (search, field) pairs the threads and the clients filter by.
Queries == {<<<<"a">>, "email">>, <<<<"1">>, "id">>}

\* A comprehension that looks its next element up in the client's cache.
IterNext_rereads(frame, c) ==
    LET now == IF frame.op = "list"
                   THEN ObjectifyGetattr(c, frame.args.api_type).value
                   ELSE xpath(c, frame.args.api_type, frame.args.field,
                              frame.args.search).value
        k   == Len(frame.value) + 1
    IN  IF k <= Len(now) THEN now[k] ELSE Head(frame.objlist)

\* The element the comprehension `for o in objlist` / `for el in results`
\* takes next: the next one of the frame's own objlist, whatever the client's
\* cache c is by now.
IterNext(frame, c) == Head(frame.objlist)

\* A thread enters _list, _filter or _reload and runs up to its GET, or, when
\* the check `refresh or self._cache is None` / `self._cache is None` tells
\* it not to reload, up to the read of the cache.  Nothing after the check
\* reads refresh, and the frame does not keep it.
ThreadCall(t) ==
    /\ thread[t].pc = "idle"
    /\ UNCHANGED <<cache, lastCall, clients>>
    /\ \/ \E res \in Resources, refresh \in BOOLEAN :
            thread' = [thread EXCEPT ![t] =
                [Idle EXCEPT !.pc = IF refresh \/ cache = None
                                       THEN "get" ELSE "read",
                             !.op = "list",
                             !.args = ListArgs(res, FALSE)]]
       \/ \E res \in Resources, q \in Queries :
            thread' = [thread EXCEPT ![t] =
                [Idle EXCEPT !.pc = IF cache = None THEN "get" ELSE "read",
                             !.op = "filter",
                             !.args = SearchArgs(res, q[1], q[2])]]
       \/ thread' = [thread EXCEPT ![t] =
                [Idle EXCEPT !.pc = "get", !.op = "reload"]]

\* The thread's GET ends: _reload parses the answer and assigns self._cache,
\* or raises out of the call.
ThreadReceive(t) ==
    /\ thread[t].pc = "get"
    /\ UNCHANGED <<lastCall, clients>>
    /\ \E response \in Deliveries :
        LET r == _reload(cache, response)
        IN  /\ cache' = r.cache
            /\ thread' = [thread EXCEPT ![t] =
                    IF r.raised # NoException \/ thread[t].op = "reload"
                        THEN Idle
                        ELSE [thread[t] EXCEPT !.pc = "read"]]

\* objlist = getattr(self._cache, api_type) in _list, results =
\* self._cache.xpath(...) in _filter: the one read of the cache that the
\* objects come from; src remembers the document that was read.
ThreadRead(t) ==
    /\ thread[t].pc = "read"
    /\ UNCHANGED <<cache, lastCall, clients>>
    /\ LET found == IF thread[t].op = "list"
                        THEN ObjectifyGetattr(cache, thread[t].args.api_type)
                        ELSE xpath(cache, thread[t].args.api_type,
                                   thread[t].args.field, thread[t].args.search)
       IN  thread' = [thread EXCEPT ![t] =
                IF found.raised # NoException THEN Idle
                ELSE [thread[t] EXCEPT
                        !.pc = IF found.value = <<>> THEN "return" ELSE "load",
                        !.objlist = found.value,
                        !.src = cache]]

\* One turn of the comprehension: cls.load(o.id, self._api_key) for the next
\* element; the detail fetch fails or not.
ThreadLoad(t) ==
    /\ thread[t].pc = "load"
    /\ UNCHANGED <<cache, lastCall, clients>>
    /\ \E fails \in BOOLEAN :
        LET o   == IterNext(thread[t], cache)
            one == load(thread[t].args.cls, ElementFind(o, "id").text, fails)
        IN  thread' = [thread EXCEPT ![t] =
                IF ElementFind(o, "id") = None THEN Idle
                ELSE IF one.raised # NoException THEN Idle
                ELSE [thread[t] EXCEPT
                        !.pc = IF Len(thread[t].objlist) = 1
                                   THEN "return" ELSE "load",
                        !.objlist = Tail(thread[t].objlist),
                        !.value = Append(thread[t].value, one.value)]]

\* The call returns the list it built.
ThreadReturn(t) ==
    /\ thread[t].pc = "return"
    /\ UNCHANGED <<cache, lastCall, clients>>
    /\ thread' = [thread EXCEPT ![t] = Idle]

NextThreads ==
    \/ \E t \in Threads : ThreadCall(t)
    \/ \E t \in Threads : ThreadReceive(t)
    \/ \E t \in Threads : ThreadRead(t)
    \/ \E t \in Threads : ThreadLoad(t)
    \/ \E t \in Threads : ThreadReturn(t)

SpecThreads == Init /\ [][NextThreads]_vars

\* ------------------------------------------- several clients, one thread
\* self._cache read on client c: the instance's own entry when it has one,
\* the class attribute otherwise.
GetCache(o, c) == IF o.self[c] = Unset THEN o.class ELSE o.self[c]

\* An assignment that lands on the class attribute.
SetCache_on_class(o, c, v) == [o EXCEPT !.class = v]

\* self._cache = v on client c: an entry of that instance.
SetCache(o, c, v) == [o EXCEPT !.self[c] = v]

Requests(asked) == IF asked THEN Deliveries ELSE {NoAnswer}

\* One call of client c: _reload's assignment when the call's reload got as
\* far, and the record of the call: the requests it issued, whether c's cache
\* was populated when it began, and what the other clients' caches were.
ClientCall(c, op, args, response, outcome) ==
    /\ UNCHANGED <<cache, thread>>
    /\ clients' = IF Delivered(Asks(outcome), response)
                      THEN SetCache(clients, c, outcome.cache)
                      ELSE clients
    /\ lastCall' = [op |-> op, args |-> args, client |-> c,
                    raised |-> outcome.raised, requests |-> outcome.requests,
                    cached |-> GetCache(clients, c) # None,
                    others |-> [d \in Clients \ {c} |-> GetCache(clients, d)]]

ClientList(c) ==
    \E res \in Resources, refresh \in BOOLEAN :
      \E response \in Requests(Asks(_list(GetCache(clients, c), res[1], res[2],
                                          refresh, ConnectionFailure, 0))) :
        ClientCall(c, "list", ListArgs(res, refresh), response,
                   _list(GetCache(clients, c), res[1], res[2], refresh,
                         response, 0))

ClientFilter(c) ==
    \E res \in Resources, q \in Queries :
      \E response \in Requests(Asks(_filter(GetCache(clients, c), res[1],
                                            res[2], q[1], q[2],
                                            ConnectionFailure, 0))) :
        ClientCall(c, "filter", SearchArgs(res, q[1], q[2]), response,
                   _filter(GetCache(clients, c), res[1], res[2], q[1], q[2],
                           response, 0))

ClientReload(c) ==
    \E response \in Deliveries :
        LET r == _reload(GetCache(clients, c), response)
        IN  ClientCall(c, "reload", NoArgs, response,
                       [raised |-> r.raised, value |-> None,
                        cache |-> r.cache, requests |-> r.requests])

NextClients ==
    \/ \E c \in Clients : ClientList(c)
    \/ \E c \in Clients : ClientFilter(c)
    \/ \E c \in Clients : ClientReload(c)

SpecClients == Init /\ [][NextClients]_vars

\* ---------------------------------------------------- vocabulary of claims
\* Section T of a document: its records of type T, in server order.
Section(doc, T) == SelectSeq(doc.children, LAMBDA rec : rec.tag = T)

HasId(rec) == \E i \in 1..Len(rec.children) : rec.children[i].tag = "id"

\* The id of a record: the text of its first id field.
IdOf(rec) ==
    rec.children[CHOOSE i \in 1..Len(rec.children) :
                    /\ rec.children[i].tag = "id"
                    /\ \A j \in 1..(i - 1) : rec.children[j].tag # "id"].text

AllHaveIds(recs) == \A i \in 1..Len(recs) : HasId(recs[i])

\* The ids of records that all have one, in order.
RECURSIVE IdsInOrder(_)
IdsInOrder(recs) ==
    IF recs = <<>> THEN <<>>
    ELSE <<IdOf(Head(recs))>> \o IdsInOrder(Tail(recs))

\* The records of section T one of whose fields named field has exactly the
\* text search.
Matching(doc, T, field, search) ==
    SelectSeq(doc.children,
        LAMBDA rec : /\ rec.tag = T
                     /\ \E i \in 1..Len(rec.children) :
                            /\ rec.children[i].tag = field
                            /\ rec.children[i].text = search)

RECURSIVE Identities(_)
Identities(objs) ==
    IF objs = <<>> THEN <<>>
    ELSE <<Head(objs)._id>> \o Identities(Tail(objs))

ListingRequests(call) ==
    Cardinality({i \in DOMAIN call.requests :
                    call.requests[i].endpoint = "listing"})

\* The call's listing request got an HTTP answer.
Answered(call) == Asks(call) /\ call.response.kind = "Response"

\* C1: if the cache holds a document and a reload receives malformed bytes,
\* the cache after the failed reload is the same document and the call raises
\* the parse failure.
C1_ParseFailurePreservesCache ==
    (/\ lastCall.cached
     /\ Answered(lastCall)
     /\ ~lastCall.response.content.wellformed)
        => /\ lastCall.kept
           /\ cache \in Docs \cup {ErrorDoc}
           /\ lastCall.raised = "XMLSyntaxError"

C1_Witness ==
    /\ lastCall.op = "reload"
    /\ lastCall.cached
    /\ Answered(lastCall)
    /\ ~lastCall.response.content.wellformed
    /\ lastCall.raised = "XMLSyntaxError"
    /\ cache \in Docs
    /\ cache.children # <<>>

\* The ids a read returned.
ReturnedIds(call) ==
    IF call.raised # NoException THEN {}
    ELSE IF call.op \in {"list", "filter"} THEN Range(Identities(call.value))
    ELSE IF call.op = "find" /\ call.value # None THEN {call.value._id}
    ELSE {}

\* C2: a reload that is delivered a document leaves exactly that document in
\* the cache, and the read that follows it returns no id that only the
\* replaced document held; a read that does not reload leaves the cache alone;
\* every read returns ids of the one cached document only.
C2_CacheReplacedNotMerged ==
    /\ Delivered(Asks(lastCall), lastCall.response)
            => cache = lastCall.response.content.root
    /\ ~Asks(lastCall) => lastCall.kept
    /\ ReturnedIds(lastCall) \cap lastCall.replaced = {}
    /\ ReturnedIds(lastCall) \subseteq IdsOf(cache)

C2_Witness ==
    /\ lastCall.op = "list"
    /\ lastCall.raised = NoException
    /\ lastCall.replaced # {}
    /\ ReturnedIds(lastCall) # {}
    /\ cache = lastCall.response.content.root

\* C3: once the cache is populated, a list call with refresh=false issues no
\* request to the listing endpoint: all its requests are detail fetches.
C3_StaleCacheReuse ==
    (/\ lastCall.cached
     /\ lastCall.op = "list"
     /\ ~lastCall.args.refresh)
        => /\ ListingRequests(lastCall) = 0
           /\ \A i \in DOMAIN lastCall.requests :
                    lastCall.requests[i].endpoint = "detail"
           /\ lastCall.kept

C3_Witness ==
    /\ lastCall.op = "list"
    /\ lastCall.cached
    /\ ~lastCall.args.refresh
    /\ ListingRequests(lastCall) = 0
    /\ Len(lastCall.requests) = 2
    /\ lastCall.raised = NoException

\* C4: a list call fetches the listing exactly when refresh is true or the
\* cache is absent, then once and before any detail fetch, and the objects it
\* returns are those of the document it fetched.
C4_ListReloadsOnRefreshOrEmpty ==
    lastCall.op = "list"
        => /\ ListingRequests(lastCall)
                = IF lastCall.args.refresh \/ ~lastCall.cached THEN 1 ELSE 0
           /\ Asks(lastCall) => lastCall.requests[1] = ListingRequest
           /\ (Asks(lastCall) /\ lastCall.raised = NoException)
                => /\ Delivered(TRUE, lastCall.response)
                   /\ AllHaveIds(Section(lastCall.response.content.root,
                                         lastCall.args.api_type))
                   /\ Identities(lastCall.value)
                        = IdsInOrder(Section(lastCall.response.content.root,
                                             lastCall.args.api_type))

C4_Witness ==
    /\ lastCall.op = "list"
    /\ lastCall.args.refresh
    /\ lastCall.cached
    /\ ~lastCall.kept
    /\ ListingRequests(lastCall) = 1
    /\ lastCall.raised = NoException
    /\ Len(lastCall.value) = 2

\* C5: list(T) on a section holding records returns one object per record,
\* with the records' ids in server order, equal ids kept: whenever it returns,
\* and it does return when every record has an id and no fetch fails.
C5_ListOrder ==
    (/\ lastCall.op = "list"
     /\ cache # None
     /\ Asks(lastCall) => Delivered(TRUE, lastCall.response))
        => LET section == Section(cache, lastCall.args.api_type)
           IN  /\ lastCall.raised = NoException
                    => /\ AllHaveIds(section)
                       /\ Identities(lastCall.value) = IdsInOrder(section)
                       /\ \A i \in 1..Len(lastCall.value) :
                            lastCall.value[i].cls = lastCall.args.cls
               /\ (/\ section # <<>>
                   /\ AllHaveIds(section)
                   /\ lastCall.raised # "ConnectionError")
                    => lastCall.raised = NoException

C5_Witness ==
    /\ lastCall.op = "list"
    /\ lastCall.raised = NoException
    /\ Len(lastCall.value) = 2
    /\ lastCall.value[1]._id = lastCall.value[2]._id

\* C6: filter(T, search, field) returns exactly the records of section T whose
\* field has the text search, in document order, and an empty sequence when
\* none does (detail fetches and ids permitting).
C6_FilterExactMatch ==
    (/\ lastCall.op = "filter"
     /\ cache # None
     /\ lastCall.raised # "ConnectionError")
        => LET m == Matching(cache, lastCall.args.api_type,
                             lastCall.args.field, lastCall.args.search)
           IN  AllHaveIds(m)
                    => /\ lastCall.raised = NoException
                       /\ Identities(lastCall.value) = IdsInOrder(m)

\* C7: filter and find fetch the listing exactly when the cache is absent; on
\* a populated cache they leave it unchanged and what they return is computed
\* on it.
C7_FilterNeverRefreshes ==
    lastCall.op \in {"filter", "find"}
        => /\ ListingRequests(lastCall) = IF lastCall.cached THEN 0 ELSE 1
           /\ lastCall.cached
                => /\ lastCall.kept
                   /\ lastCall.raised = NoException
                        => LET m == Matching(cache, lastCall.args.api_type,
                                             lastCall.args.field,
                                             lastCall.args.search)
                           IN  /\ AllHaveIds(m)
                               /\ IF lastCall.op = "filter"
                                      THEN Identities(lastCall.value)
                                                = IdsInOrder(m)
                                  ELSE IF m = <<>> THEN lastCall.value = None
                                  ELSE /\ lastCall.value # None
                                       /\ lastCall.value._id = IdOf(m[1])

C7_Witness ==
    /\ lastCall.op = "filter"
    /\ lastCall.cached
    /\ ListingRequests(lastCall) = 0
    /\ lastCall.raised = NoException
    /\ Len(lastCall.value) = 2

\* C8: find returns the first record matching the search, in document order,
\* and the absent value, not an error, when no record matches (detail fetches
\* and ids permitting).
C8_FindFirstOrAbsent ==
    (/\ lastCall.op = "find"
     /\ cache # None
     /\ lastCall.raised # "ConnectionError")
        => LET m == Matching(cache, lastCall.args.api_type,
                             lastCall.args.field, lastCall.args.search)
           IN  AllHaveIds(m)
                    => /\ lastCall.raised = NoException
                       /\ IF m = <<>> THEN lastCall.value = None
                          ELSE /\ lastCall.value # None
                               /\ lastCall.value._id = IdOf(m[1])

\* C9: a listing answer with a non-success status makes the reload raise
\* NetworkException, and its body does not become the cached document.
C9_ErrorStatusIsNetworkException ==
    (/\ Answered(lastCall)
     /\ lastCall.response.status_code # 200)
        => /\ lastCall.raised = "NetworkException"
           /\ lastCall.response.content.wellformed
                => cache # lastCall.response.content.root

\* C10: constructing an object from a record without an id field raises, for
\* every resource class, and yields no object.
C10_IdentityRequired ==
    (/\ lastCall.op = "construct"
     /\ ~HasId(lastCall.args.el))
        => /\ lastCall.raised # NoException
           /\ lastCall.value = None

C10_Witness ==
    /\ lastCall.op = "construct"
    /\ lastCall.args.cls = "Role"
    /\ lastCall.args.el.tag = "user"
    /\ ~HasId(lastCall.args.el)
    /\ lastCall.raised = "AttributeError"

\* C11: every object that construction yields has a non-empty identity:
\* constructing from a record whose id field is there with empty text raises
\* and yields no object.
C11_IdentityNonEmpty ==
    lastCall.op = "construct"
        => /\ lastCall.raised = NoException => lastCall.value._id # <<>>
           /\ (/\ HasId(lastCall.args.el)
               /\ IdOf(lastCall.args.el) = <<>>)
                => /\ lastCall.raised # NoException
                   /\ lastCall.value = None

\* C12: asking a constructed object for a field gives the text of the
\* record's child of that name when there is one and the absent value when
\* there is none, and raises in neither case.
C12_FieldAccessNeverRaises ==
    lastCall.op = "getattr"
        => LET f == ElementFind(lastCall.args.el, lastCall.args.field)
           IN  /\ lastCall.raised = NoException
               /\ f = None => lastCall.value = None
               /\ f # None => lastCall.value = PyText(f.text)

C12_Witness ==
    /\ lastCall.op = "getattr"
    /\ lastCall.args.field = "phone"
    /\ ElementFind(lastCall.args.el, "phone") = None
    /\ lastCall.raised = NoException
    /\ lastCall.value = None


\* C13: the cache is absent at construction and stays absent until a reload
\* is delivered a document that parses; once it is populated no call, failed
\* or not, leaves it absent.
C13_CacheLifecycle ==
    /\ lastCall.op = "init" => cache = None
    /\ (~lastCall.cached /\ cache # None)
            => Delivered(Asks(lastCall), lastCall.response)
    /\ lastCall.cached => cache # None

C13_Witness ==
    /\ lastCall.op = "list"
    /\ lastCall.cached
    /\ lastCall.args.refresh
    /\ lastCall.raised = "ConnectionError"
    /\ cache \in Docs

\* C14: when the GET of the reload inside a list, filter or find fails, the
\* cache is left as it was, the call raises the transport failure and returns
\* nothing, and the listing request is the only request it issued.
C14_TransportFailureLeavesCache ==
    (/\ lastCall.op \in {"list", "filter", "find"}
     /\ Asks(lastCall)
     /\ lastCall.response = ConnectionFailure)
        => /\ lastCall.kept
           /\ lastCall.cached <=> cache # None
           /\ lastCall.raised = "ConnectionError"
           /\ lastCall.value = None
           /\ lastCall.requests = <<ListingRequest>>

C14_Witness ==
    /\ lastCall.op = "list"
    /\ lastCall.cached
    /\ lastCall.response = ConnectionFailure
    /\ lastCall.raised = "ConnectionError"
    /\ lastCall.kept
    /\ cache \in Docs
    /\ Len(Section(cache, "user")) = 2

\* The ids of the detail requests among a call's requests, in order.
RECURSIVE DetailIds(_)
DetailIds(requests) ==
    IF requests = <<>> THEN <<>>
    ELSE IF Head(requests).endpoint = "detail"
        THEN <<Head(requests).id>> \o DetailIds(Tail(requests))
    ELSE DetailIds(Tail(requests))

\* The records a list or filter call is to return: the section, or its
\* matching records.
Selected(call, doc) ==
    IF doc = None THEN <<>>
    ELSE IF call.op = "list" THEN Section(doc, call.args.api_type)
    ELSE Matching(doc, call.args.api_type, call.args.field, call.args.search)

\* The i-th detail request of the call is for the i-th selected record.
FetchesInOrder(fetched, selected) ==
    /\ Len(fetched) <= Len(selected)
    /\ \A i \in 1..Len(fetched) :
            /\ HasId(selected[i])
            /\ fetched[i] = IdOf(selected[i])

\* C15: a list or filter call asks the listing endpoint first, if at all, and
\* issues detail fetches only with a document in the cache: one per selected
\* record, in document order, none for any other record, and when it returns
\* exactly one per object returned.
C15_OneDetailFetchPerRecord ==
    lastCall.op \in {"list", "filter"}
        => LET selected == Selected(lastCall, cache)
               fetched  == DetailIds(lastCall.requests)
           IN  /\ \A i \in DOMAIN lastCall.requests :
                        lastCall.requests[i] = ListingRequest => i = 1
               /\ fetched # <<>> => cache # None
               /\ FetchesInOrder(fetched, selected)
               /\ lastCall.raised = NoException
                    => /\ Len(fetched) = Len(selected)
                       /\ Identities(lastCall.value) = fetched

C15_Witness ==
    /\ lastCall.op = "filter"
    /\ lastCall.raised = NoException
    /\ lastCall.requests[1] = ListingRequest
    /\ Len(lastCall.requests) = 2
    /\ Len(lastCall.value) = 1
    /\ Len(Section(cache, "user")) = 2

\* C16: list(T) on a cached document without records of type T returns the
\* empty sequence and issues no detail fetch.
C16_ListEmptySection ==
    (/\ lastCall.op = "list"
     /\ cache # None
     /\ Asks(lastCall) => Delivered(TRUE, lastCall.response)
     /\ Section(cache, lastCall.args.api_type) = <<>>)
        => /\ lastCall.raised = NoException
           /\ lastCall.value = <<>>
           /\ DetailIds(lastCall.requests) = <<>>

\* C17: find issues a detail fetch for every matching record, in document
\* order, not for the first only: when it returns, every match had an id and
\* was fetched; and on a populated cache a failure of the fetch of any match,
\* the first or a later one, makes find raise.
C17_FindFetchesEveryMatch ==
    lastCall.op = "find"
        => LET selected == Selected(lastCall, cache)
               fetched  == DetailIds(lastCall.requests)
           IN  /\ FetchesInOrder(fetched, selected)
               /\ lastCall.raised = NoException
                    => /\ AllHaveIds(selected)
                       /\ fetched = IdsInOrder(selected)
               /\ (lastCall.cached /\ LiteralIsClosed(lastCall.args.search))
                    => \A k \in 1..Len(selected) :
                         AllHaveIds(SubSeq(selected, 1, k))
                            => _find(cache, lastCall.args.api_type,
                                     lastCall.args.cls, lastCall.args.search,
                                     lastCall.args.field, NoAnswer, k).raised
                                 = "ConnectionError"

C17_Witness ==
    /\ lastCall.op = "find"
    /\ lastCall.cached
    /\ lastCall.raised = "ConnectionError"
    /\ DetailIds(lastCall.requests) = <<<<"1">>, <<"2">>>>

\* The ids of the objects a frame has built and of the elements it has yet
\* to load.
FrameIds(frame) == Identities(frame.value) \o IdsInOrder(frame.objlist)

\* C18: with two threads on one client, every list or filter call builds its
\* result from one document version, the one it read the cache as, whatever
\* reloads of the other thread replace the cache meanwhile: at every turn of
\* the comprehension the ids built and the ids to come are the ids of that
\* version's selection, and so is the sequence returned.
C18_SingleVersionPerCall ==
    \A t \in Threads :
        thread[t].pc \in {"load", "return"}
            => /\ thread[t].src \in Versions
               /\ AllHaveIds(thread[t].objlist)
               /\ AllHaveIds(Selected(thread[t], thread[t].src))
               /\ FrameIds(thread[t])
                    = IdsInOrder(Selected(thread[t], thread[t].src))
               /\ thread[t].pc = "return" => thread[t].objlist = <<>>

\* A call returns two objects of the version it read while the cache already
\* holds another version, with other ids, that another thread is reading.
C18_Witness ==
    /\ thread["t1"].pc = "return"
    /\ Identities(thread["t1"].value) = <<<<"1">>, <<"2">>>>
    /\ cache # thread["t1"].src
    /\ cache \in Versions
    /\ IdsOf(cache) = {<<"2">>}
    /\ Len(cache.children) = 2
    /\ thread["t2"].pc = "load"
    /\ thread["t2"].src = cache

\* C19: a call on one client leaves every other client's cache, absent or
\* populated, as it was, and the class attribute absent; so a list or filter
\* on a client whose cache is absent fetches the listing itself, first of
\* all, whatever the other clients have cached.
C19_CachePerClient ==
    /\ clients.class = None
    /\ lastCall.op # "init"
        => /\ \A d \in Clients \ {lastCall.client} :
                    GetCache(clients, d) = lastCall.others[d]
           /\ (lastCall.op \in {"list", "filter"} /\ ~lastCall.cached)
                => /\ ListingRequests(lastCall) = 1
                   /\ lastCall.requests[1] = ListingRequest

C19_Witness ==
    /\ lastCall.op = "list"
    /\ lastCall.client = "c2"
    /\ ~lastCall.cached
    /\ lastCall.others["c1"] \in Versions
    /\ Len(lastCall.others["c1"].children) = 2
    /\ ListingRequests(lastCall) = 1
    /\ GetCache(clients, "c2") \in Versions
    /\ GetCache(clients, "c2") # GetCache(clients, "c1")
====
